---- MODULE Spec2Model ----
(***************************************************************************)
(* A model of amazon_advertising_api.AdvertisingApi: the client's mutable  *)
(* token / profile state, the process-wide urllib opener, and every public *)
(* call as one atomic step (the library is synchronous and single-         *)
(* threaded).  The server's answers are the nondeterministic input.        *)
(***************************************************************************)
EXTENDS Integers, Sequences, FiniteSets, TLC

VARIABLES
    client,     \* client[c]: the fields of instance c (exists = FALSE: not constructed)
    opener,     \* the process-wide urllib opener: "default" or "noredirect"
    call,       \* the call that has just returned: [op, c, interface, method]; NoCall between calls
    pre,        \* the fields of the called instance when the call started
    popener,    \* the opener that was installed when the call started
    ret,        \* what the call handed back: a dict, None, or a raised error
    sent,       \* the requests the call put on the wire, in order
    got,        \* the server's answers to them, in the same order
    granted     \* granted[c]: the token the last do_refresh_token of c stored, None
                \* once refresh is called again or access_token is assigned

vars == <<client, opener, call, pre, popener, ret, sent, got, granted>>

(***************************************************************************)
(* Values                                                                  *)
(***************************************************************************)

\* Python's None, and a key that a JSON object does not have.
None == "<None>"
Absent == "<absent>"

Clients == {"c1", "c2"}

\* The instances the specification Spec drives.
Instances == {"c1"}

\* Token strings: a percent-encoded one and its decoded form.
AccessTokens == {"Atza%7CA", "Atza|A"}
RefreshTokens == {"Atzr%7CR", "Atzr|R"}
ProfileIds == {"", "P1"}

\* urllib.parse.unquote on the token strings of the model: one decoding pass.
Unquote(s) ==
    CASE s = "Atza%7CA" -> "Atza|A"
      [] s = "Atzr%7CR" -> "Atzr|R"
      [] OTHER -> s

\* regions.py: region code -> {prod, sandbox, token_url}.
RegionCodes == {"na", "eu"}

regions(r) ==
    CASE r = "na" -> [prod |-> "advertising-api.amazon.com",
                      sandbox |-> "advertising-api-test.amazon.com",
                      token_url |-> "api.amazon.com/auth/o2/token"]
      [] r = "eu" -> [prod |-> "advertising-api-eu.amazon.com",
                      sandbox |-> "advertising-api-test.amazon.com/eu",
                      token_url |-> "api.amazon.co.uk/auth/o2/token"]

\* versions.py
api_version == "v1"
user_agent == "AdvertisingAPI Python Client Library v1.0"

\* Region codes a caller may pass: the table's and one that is not in it.
CallerRegions == RegionCodes \cup {"xx"}

NoClient ==
    [exists |-> FALSE, client_id |-> None, client_secret |-> None,
     endpoint |-> None, token_url |-> None,
     access_token |-> None, refresh_token |-> None, profile_id |-> None]

(***************************************************************************)
(* Texts and JSON.  A text is known by what the code asks of it: whether   *)
(* json.loads accepts it, the object it parses to, and whether the         *)
(* substring 'access_token' occurs in it.                                  *)
(***************************************************************************)

NoObj == [status |-> Absent, location |-> Absent, access_token |-> Absent,
          payload |-> Absent]

Text(id, json, at, obj) == [t |-> "str", id |-> id, json |-> json, at |-> at, obj |-> obj]

\* A Python str that is not JSON (a message, a token).
Str(s) == Text(s, FALSE, FALSE, NoObj)

\* A parsed JSON structure handed back as such.
Parsed(obj) == [t |-> "parsed", id |-> "", json |-> FALSE, at |-> FALSE, obj |-> obj]

\* The local failure messages; these two contain the substring 'access_token'.
MsgAccessTokenEmpty == Text("access_token is empty.", FALSE, TRUE, NoObj)
MsgAccessTokenNotInResponse == Text("access_token not in response.", FALSE, TRUE, NoObj)
MsgProfileIdEmpty == Str("profile_id is empty.")
MsgRefreshTokenEmpty == Str("refresh_token is empty.")
MsgLocationEmpty == Str("Location is empty.")
MsgLocationNotFound == Str("Location not found.")
\* '{msg}: {details}'.format(msg=e.msg, details=e.read()): never valid JSON.
MsgHttpError == Str("<reason>: <body>")

LocationUrl == "https://x/y"
RedirectUrl == "https://s3/z"

\* Bodies a report / snapshot status request (and any resource request) may get.
TxtPending == Text("{status:PENDING}", TRUE, FALSE, [NoObj EXCEPT !.status = "PENDING"])
TxtSuccess == Text("{status:SUCCESS,location:url}", TRUE, FALSE,
                   [NoObj EXCEPT !.status = "SUCCESS", !.location = LocationUrl])
TxtSuccessNull == Text("{status:SUCCESS,location:null}", TRUE, FALSE,
                       [NoObj EXCEPT !.status = "SUCCESS", !.location = None])
TxtSuccessNoLoc == Text("{status:SUCCESS}", TRUE, FALSE, [NoObj EXCEPT !.status = "SUCCESS"])
TxtNoStatus == Text("{reportId:42}", TRUE, FALSE, NoObj)
TxtNotJson == Text("<html>", FALSE, FALSE, NoObj)

ApiTexts == {TxtPending, TxtSuccess, TxtSuccessNull, TxtSuccessNoLoc, TxtNoStatus, TxtNotJson}

\* Bodies the token endpoint may answer with.
TxtToken(T) == Text("{access_token:T}", TRUE, TRUE, [NoObj EXCEPT !.access_token = T])
TxtErrorMentions == Text("{error:access_token expired}", TRUE, TRUE, NoObj)
TxtErrorPlain == Text("{error:invalid_grant}", TRUE, FALSE, NoObj)
TxtHtmlMentions == Text("<html>access_token</html>", FALSE, TRUE, NoObj)

TokenTexts == {TxtToken(T) : T \in AccessTokens}
                \cup {TxtErrorMentions, TxtErrorPlain, TxtHtmlMentions, TxtNotJson}

\* The artifact: JSON rows.
TxtRows == Text("[rows]", TRUE, FALSE, [NoObj EXCEPT !.payload = "rows"])

\* json.loads(text): the object, or a ValueError.
JsonLoads(text) ==
    IF text.json THEN [ok |-> TRUE, obj |-> text.obj, exc |-> ""]
                 ELSE [ok |-> FALSE, obj |-> NoObj, exc |-> "ValueError"]

\* obj[key]: the value, or a KeyError.
GetItem(obj, key) ==
    IF obj[key] # Absent THEN [ok |-> TRUE, v |-> obj[key], exc |-> ""]
                         ELSE [ok |-> FALSE, v |-> None, exc |-> "KeyError"]

(***************************************************************************)
(* Results of a public call                                                *)
(***************************************************************************)

Dict(success, code, response) ==
    [kind |-> "dict", exc |-> "", success |-> success, code |-> code, response |-> response]

ReturnsNone ==
    [kind |-> "None", exc |-> "", success |-> FALSE, code |-> 0, response |-> Str("")]

Raises(exc) ==
    [kind |-> "raise", exc |-> exc, success |-> FALSE, code |-> 0, response |-> Str("")]

(***************************************************************************)
(* The wire: requests, the server's answers, and urllib's urlopen          *)
(***************************************************************************)

\* Bound: how many redirects urllib follows for one urlopen before it gives up
\* with an HTTPError (HTTPRedirectHandler.max_repeats in the library).
MaxRedirects == 1

\* Codes urllib's HTTPRedirectHandler handles.
RedirectCodes == {301, 302, 303, 307}

\* A URL: https://<host>/<version>/<interface><query>, or an opaque one (host only).
Url(u) == [host |-> u, version |-> "", interface |-> <<>>, query |-> ""]

\* A header that is not sent is None.
Request(url, method, auth, scope, ctype, ua, data) ==
    [url |-> url, method |-> method, auth |-> auth, scope |-> scope,
     ctype |-> ctype, ua |-> ua, data |-> data]

\* The bytes of a body: gzip-compressed text, or the text as it is.
Plain(text) == [gz |-> FALSE, text |-> text]
Gzip(text) == [gz |-> TRUE, text |-> text]

Reply(code, location, body) == [code |-> code, location |-> location, body |-> body]

\* No HTTP answer at all: the connection, the name lookup or the transport
\* failed, and urlopen raises urllib.error.URLError (which is no HTTPError).
NoAnswer == Reply(0, None, Plain(TxtNotJson))

\* What may come back for one request whose 2xx bodies are `bodies`: 200 with a
\* body, 307 with and without a Location header, 302 with one, 404, nothing.
Replies(bodies) ==
    {Reply(200, None, b) : b \in bodies}
        \cup {Reply(307, RedirectUrl, Plain(TxtNotJson)),
              Reply(307, None, Plain(TxtNotJson)),
              Reply(302, RedirectUrl, Plain(TxtNotJson)),
              Reply(404, None, Plain(TxtNotJson)),
              NoAnswer}

\* HTTPRedirectHandler.redirect_request: which verbs a redirect code is followed for.
Redirectable(code, method) ==
    \/ code \in {301, 302, 303, 307} /\ method \in {"GET", "HEAD"}
    \/ code \in {301, 302, 303} /\ method = "POST"

\* The request urllib sends to a redirect's Location: the same headers except
\* content-length and content-type, no body, as a GET.
Redirected(req, location) ==
    [req EXCEPT !.url = Url(location), !.ctype = None, !.data = None, !.method = "GET"]

Outcome(kind, code, location, body, reqs) ==
    [kind |-> kind, code |-> code, location |-> location, body |-> body, sent |-> reqs]

\* NoRedirectHandler.http_response: a 307 becomes a {code, location} record
\* instead of a response; anything else goes to HTTPErrorProcessor.
NoRedirectIntercepts(op, r) == op = "noredirect" /\ r.code = 307

\* Whether urllib follows answer r to the i-th request of one urlopen: a
\* redirect code with a Location, for a verb redirects are followed for, that the
\* no-redirect handler has not taken, within the limit.
Follows(op, r, method, i) ==
    /\ ~NoRedirectIntercepts(op, r)
    /\ r.code \in RedirectCodes
    /\ r.location # None
    /\ Redirectable(r.code, method)
    /\ i <= MaxRedirects

\* urllib.request.urlopen(req) under the installed opener, the server answering
\* chain[i], chain[i+1], ...  kind: "response" (an HTTP response object), "dict"
\* (the no-redirect handler's record), "HTTPError" or "URLError" (raised).
RECURSIVE Open(_, _, _, _)
Open(op, req, chain, i) ==
    LET r == chain[i] IN
    IF r = NoAnswer
    THEN Outcome("URLError", 0, None, r.body, <<req>>)
    ELSE IF NoRedirectIntercepts(op, r)
    THEN Outcome("dict", 307, r.location, r.body, <<req>>)
    ELSE IF r.code >= 200 /\ r.code < 300
    THEN Outcome("response", r.code, r.location, r.body, <<req>>)
    ELSE IF Follows(op, r, req.method, i) /\ i < Len(chain)
    THEN LET o == Open(op, Redirected(req, r.location), chain, i + 1)
         IN  [o EXCEPT !.sent = <<req>> \o o.sent]
    ELSE Outcome("HTTPError", r.code, r.location, r.body, <<req>>)

Urlopen(op, req, chain) == Open(op, req, chain, 1)

\* The server's answers to one urlopen, one per request it sends: every answer
\* but the last is a redirect urllib follows, the last is one it does not.
RECURSIVE ChainsFrom(_, _, _, _)
ChainsFrom(op, method, bodies, i) ==
    LET followed == {r \in Replies(bodies) : Follows(op, r, method, i)}
    IN  {<<r>> : r \in Replies(bodies) \ followed}
            \cup IF followed = {} THEN {}
                 ELSE {<<r>> \o ch : r \in followed,
                                     ch \in ChainsFrom(op, "GET", bodies, i + 1)}

Chains(op, method, bodies) == ChainsFrom(op, method, bodies, 1)

\* f.read().decode('utf-8'): the text of a plain body.
Decode(body) ==
    IF body.gz THEN [ok |-> FALSE, text |-> Str(""), exc |-> "UnicodeDecodeError"]
               ELSE [ok |-> TRUE, text |-> body.text, exc |-> ""]

\* gzip.GzipFile(fileobj=buf).read().decode('utf-8')
Gunzip(body) ==
    IF body.gz THEN [ok |-> TRUE, text |-> body.text, exc |-> ""]
               ELSE [ok |-> FALSE, text |-> Str(""), exc |-> "OSError"]

(***************************************************************************)
(* AdvertisingApi._operation                                               *)
(***************************************************************************)

\* Path segments that contain the substring 'profiles'.
ProfilesSegments == {"profiles", "profiles42"}

\* 'profiles' in interface: the substring test on the whole path.
HasProfiles(interface) == \E i \in 1..Len(interface) : interface[i] \in ProfilesSegments

\* self.profile_id is not None and self.profile_id != ''
ProfileIsSet(cl) == cl.profile_id # None /\ cl.profile_id # ""

\* 'Bearer {}'.format(self._access_token)
AuthHeader(cl) == "Bearer " \o cl.access_token

\* urllib.parse.urlencode(params) and json.dumps(params) of a caller's parameters.
Urlencode(params) == "urlencoded:" \o params
JsonDumps(params) == "json:" \o params

\* The URL and body _operation builds for the verb.
OperationRequest(cl, interface, params, method) ==
    Request([host |-> cl.endpoint, version |-> api_version, interface |-> interface,
             query |-> IF method = "GET" /\ params # None
                       THEN "?" \o Urlencode(params) ELSE ""],
            method,
            AuthHeader(cl),
            IF ProfileIsSet(cl) THEN cl.profile_id ELSE None,
            "application/json",
            user_agent,
            IF method # "GET" /\ params # None THEN JsonDumps(params) ELSE None)

Result(r, reqs) == [ret |-> r, sent |-> reqs]

\* _operation with its two precondition checks in the other order.
Operation_ProfileFirst(cl, op, interface, params, method, chain) ==
    IF ~ProfileIsSet(cl) /\ ~HasProfiles(interface)
    THEN Result(Dict(FALSE, 0, MsgProfileIdEmpty), <<>>)
    ELSE IF cl.access_token = None
    THEN Result(Dict(FALSE, 0, MsgAccessTokenEmpty), <<>>)
    ELSE LET req == OperationRequest(cl, interface, params, method)
             o == Urlopen(op, req, chain)
         IN  CASE o.kind = "response" ->
                    Result(Dict(TRUE, o.code, Decode(o.body).text), o.sent)
               [] o.kind = "HTTPError" ->
                    Result(Dict(FALSE, o.code, MsgHttpError), o.sent)
               [] o.kind = "dict" ->
                    Result(Raises("AttributeError"), o.sent)
               [] o.kind = "URLError" ->
                    Result(Raises("URLError"), o.sent)

\* _operation(interface, params, method) -> the returned dict (or the error
\* raised) and the requests sent.
Operation(cl, op, interface, params, method, chain) ==
    IF cl.access_token = None
    THEN Result(Dict(FALSE, 0, MsgAccessTokenEmpty), <<>>)
    ELSE IF ~ProfileIsSet(cl) /\ ~HasProfiles(interface)
    THEN Result(Dict(FALSE, 0, MsgProfileIdEmpty), <<>>)
    ELSE LET req == OperationRequest(cl, interface, params, method)
             o == Urlopen(op, req, chain)
         IN  CASE o.kind = "response" ->
                    IF Decode(o.body).ok
                    THEN Result(Dict(TRUE, o.code, Decode(o.body).text), o.sent)
                    ELSE Result(Raises(Decode(o.body).exc), o.sent)
               [] o.kind = "HTTPError" ->
                    Result(Dict(FALSE, o.code, MsgHttpError), o.sent)
               [] o.kind = "dict" ->
                    \* f.code on the handler's record
                    Result(Raises("AttributeError"), o.sent)
               [] o.kind = "URLError" ->
                    \* not an HTTPError: nothing catches it
                    Result(Raises("URLError"), o.sent)

\* Whether _operation gets as far as its urlopen.
OperationSends(cl, interface) ==
    cl.access_token # None /\ (ProfileIsSet(cl) \/ HasProfiles(interface))

\* The chains that fit a call of _operation: none when it returns before the
\* request, else one that its urlopen consumes.
OperationChains(cl, op, interface, params, method, bodies) ==
    IF OperationSends(cl, interface)
    THEN Chains(op, method, bodies)
    ELSE {<<>>}

(***************************************************************************)
(* AdvertisingApi._download                                                *)
(***************************************************************************)

\* Bodies the artifact location may serve.
ArtifactBodies == {Gzip(TxtRows), Plain(TxtRows), Gzip(TxtNotJson)}

\* The exceptions urllib.request.Request(url=None) raises, by Python build.
BadUrlErrors == {"ValueError", "AttributeError"}

\* The first request of _download: the dispatch headers, to the artifact location.
DownloadRequest(cl, location) ==
    Request(Url(location), "GET", AuthHeader(cl), cl.profile_id,
            "application/json", user_agent, None)

\* The second request of _download: urllib.request.Request(url=response['location']).
FollowRequest(location) == Request(Url(location), "GET", None, None, None, None, None)

\* 'location' in response: a key of the handler's record; for an HTTP response
\* object the test walks the body's lines and finds none equal to the str.
LocationIn(o) == o.kind = "dict"

DResult(r, reqs, installed, fit) ==
    [ret |-> r, sent |-> reqs, installed |-> installed, fit |-> fit]

\* _download reporting the code of the first (307) answer instead of the second's.
DownloadSecond_FirstCode(o1, o2) ==
    CASE o2.kind = "response" ->
            LET g == Gunzip(o2.body) IN
            IF ~g.ok THEN Raises(g.exc)
            ELSE IF ~JsonLoads(g.text).ok THEN Raises(JsonLoads(g.text).exc)
            ELSE Dict(TRUE, o1.code, Parsed(JsonLoads(g.text).obj))
      [] o2.kind = "dict" -> Raises("AttributeError")
      [] o2.kind = "HTTPError" -> Dict(FALSE, o2.code, MsgHttpError)
      [] o2.kind = "URLError" -> Raises("URLError")

\* What _download does once the second urlopen has answered.
DownloadSecond(o1, o2) ==
    CASE o2.kind = "response" ->
            LET g == Gunzip(o2.body) IN
            IF ~g.ok THEN Raises(g.exc)
            ELSE IF ~JsonLoads(g.text).ok THEN Raises(JsonLoads(g.text).exc)
            ELSE Dict(TRUE, o2.code, Parsed(JsonLoads(g.text).obj))
      [] o2.kind = "dict" -> Raises("AttributeError")   \* res.read() on the record
      [] o2.kind = "HTTPError" -> Dict(FALSE, o2.code, MsgHttpError)
      [] o2.kind = "URLError" -> Raises("URLError")

\* _download opening its first request again instead of the one to the Location.
DownloadFirst_SameRequest(o1, rs) ==
    CASE o1.kind = "HTTPError" ->
            DResult(Dict(FALSE, o1.code, MsgHttpError), o1.sent, TRUE, Len(rs) = 1)
      [] o1.kind = "URLError" ->
            DResult(Raises("URLError"), o1.sent, TRUE, Len(rs) = 1)
      [] o1.kind \in {"response", "dict"} /\ ~LocationIn(o1) ->
            DResult(Dict(FALSE, o1.code, MsgLocationNotFound), o1.sent, TRUE, Len(rs) = 1)
      [] o1.kind \in {"response", "dict"} /\ LocationIn(o1) /\ o1.location = None ->
            DResult(Raises("AttributeError"), o1.sent, TRUE, Len(rs) = 1)
      [] o1.kind \in {"response", "dict"} /\ LocationIn(o1) /\ o1.location # None ->
            IF Len(rs) # 2 THEN DResult(Raises(""), o1.sent, TRUE, FALSE)
            ELSE LET o2 == Urlopen("noredirect", o1.sent[1], rs[2])
                 IN  DResult(DownloadSecond(o1, o2), o1.sent \o o2.sent, TRUE, TRUE)

\* What _download does once the first urlopen has come back with o1; rs[2] is
\* what the server answers to the second urlopen, when there is one.
DownloadFirst(o1, rs) ==
    CASE o1.kind = "HTTPError" ->
            DResult(Dict(FALSE, o1.code, MsgHttpError), o1.sent, TRUE, Len(rs) = 1)
      [] o1.kind = "URLError" ->
            DResult(Raises("URLError"), o1.sent, TRUE, Len(rs) = 1)
      [] o1.kind \in {"response", "dict"} /\ ~LocationIn(o1) ->
            DResult(Dict(FALSE, o1.code, MsgLocationNotFound), o1.sent, TRUE, Len(rs) = 1)
      [] o1.kind \in {"response", "dict"} /\ LocationIn(o1) /\ o1.location = None ->
            \* response.code on the handler's record
            DResult(Raises("AttributeError"), o1.sent, TRUE, Len(rs) = 1)
      [] o1.kind \in {"response", "dict"} /\ LocationIn(o1) /\ o1.location # None ->
            IF Len(rs) # 2 THEN DResult(Raises(""), o1.sent, TRUE, FALSE)
            ELSE LET o2 == Urlopen("noredirect", FollowRequest(o1.location), rs[2])
                 IN  DResult(DownloadSecond(o1, o2), o1.sent \o o2.sent, TRUE, TRUE)

\* raise ValueError('Invalid profile Id.')
InvalidProfileId == "ValueError: Invalid profile Id."

\* _download building an opener of its own for its requests and leaving the
\* process-wide one alone.
Download_OwnOpener(cl, location, rs, bad) ==
    LET d == IF cl.profile_id = None
             THEN DResult(Raises(InvalidProfileId), <<>>, FALSE, Len(rs) = 0)
             ELSE IF location = None
             THEN DResult(Raises(bad), <<>>, TRUE, Len(rs) = 0)
             ELSE IF Len(rs) = 0
             THEN DResult(Raises(""), <<>>, TRUE, FALSE)
             ELSE DownloadFirst(Urlopen("noredirect", DownloadRequest(cl, location), rs[1]), rs)
    IN  [d EXCEPT !.installed = FALSE]

\* _download(location) -> the result, the requests sent, whether the
\* no-redirect opener was installed.  rs: the server's answers, one chain per
\* urlopen; bad: the error Request() raises for a location that is no URL.
Download(cl, location, rs, bad) ==
    IF cl.profile_id = None
    THEN DResult(Raises(InvalidProfileId), <<>>, FALSE, Len(rs) = 0)
    ELSE IF location = None
    THEN DResult(Raises(bad), <<>>, TRUE, Len(rs) = 0)
    ELSE IF Len(rs) = 0
    THEN DResult(Raises(""), <<>>, TRUE, FALSE)
    ELSE DownloadFirst(Urlopen("noredirect", DownloadRequest(cl, location), rs[1]), rs)

\* The answers a download may get: none, a chain for its first urlopen, and
\* after one that ends in a 307 with a Location, a chain for its second.
DownloadReplies ==
    LET first == Chains("noredirect", "GET", {Gzip(TxtRows)})
        second == Chains("noredirect", "GET", ArtifactBodies)
    IN  {<<>>} \cup {<<ch>> : ch \in first}
               \cup {<<ch1, ch2>> : ch1 \in {ch \in first : /\ ch[Len(ch)].code = 307
                                                            /\ ch[Len(ch)].location # None},
                                    ch2 \in second}

\* The answers of a download's urlopens, in the order they came.
Answers(rs) ==
    IF Len(rs) = 0 THEN <<>> ELSE IF Len(rs) = 1 THEN rs[1] ELSE rs[1] \o rs[2]

\* get_report / get_snapshot going for the location whatever the status is.
AfterStatus_AnyStatus(cl, res, rs, bad) ==
    IF res.kind = "raise" THEN DResult(res, <<>>, FALSE, Len(rs) = 0)
    ELSE LET j == JsonLoads(res.response)
             st == GetItem(j.obj, "status")
             loc == GetItem(j.obj, "location")
         IN  IF ~j.ok THEN DResult(Raises(j.exc), <<>>, FALSE, Len(rs) = 0)
             ELSE IF ~st.ok THEN DResult(Raises(st.exc), <<>>, FALSE, Len(rs) = 0)
             ELSE IF ~loc.ok THEN DResult(Raises(loc.exc), <<>>, FALSE, Len(rs) = 0)
             ELSE Download(cl, loc.v, rs, bad)

\* get_report / get_snapshot after the status check `res`: the result, the
\* download's requests, whether the opener was installed.
AfterStatus(cl, res, rs, bad) ==
    IF res.kind = "raise" THEN DResult(res, <<>>, FALSE, Len(rs) = 0)
    ELSE LET j == JsonLoads(res.response)
             st == GetItem(j.obj, "status")
             loc == GetItem(j.obj, "location")
         IN  IF ~j.ok THEN DResult(Raises(j.exc), <<>>, FALSE, Len(rs) = 0)
             ELSE IF ~st.ok THEN DResult(Raises(st.exc), <<>>, FALSE, Len(rs) = 0)
             ELSE IF st.v # "SUCCESS" THEN DResult(res, <<>>, FALSE, Len(rs) = 0)
             ELSE IF ~loc.ok THEN DResult(Raises(loc.exc), <<>>, FALSE, Len(rs) = 0)
             ELSE Download(cl, loc.v, rs, bad)

(***************************************************************************)
(* AdvertisingApi.do_refresh_token                                         *)
(***************************************************************************)

\* Python truthiness of an optional str.
Truthy(s) == s # None /\ s # ""

\* The tokens after the unquote normalisation at the head of do_refresh_token.
Unquoted(cl) ==
    [cl EXCEPT !.access_token = IF Truthy(@) THEN Unquote(@) ELSE @,
               !.refresh_token = Unquote(@)]

\* The form-encoded POST to the token endpoint (data is set, so urllib posts it
\* as application/x-www-form-urlencoded; the code sets no header).
RefreshRequest(cl) ==
    Request(Url(cl.token_url), "POST", None, None,
            "application/x-www-form-urlencoded", None,
            Urlencode("grant_type=refresh_token&refresh_token=" \o cl.refresh_token
                      \o "&client_id=" \o cl.client_id
                      \o "&client_secret=" \o cl.client_secret))

RResult(r, reqs, cl) == [ret |-> r, sent |-> reqs, cl |-> cl]

\* do_refresh_token handing the new token back without storing it.
RefreshResponse_NoStore(cl, code, text, reqs) ==
    IF text.at
    THEN LET j == JsonLoads(text)
             tok == GetItem(j.obj, "access_token")
         IN  IF ~j.ok THEN RResult(Raises(j.exc), reqs, cl)
             ELSE IF ~tok.ok THEN RResult(Raises(tok.exc), reqs, cl)
             ELSE RResult(Dict(TRUE, code, Str(tok.v)), reqs, cl)
    ELSE RResult(Dict(FALSE, code, MsgAccessTokenNotInResponse), reqs, cl)

\* What do_refresh_token does with a 2xx answer whose text is `text`.
RefreshResponse(cl, code, text, reqs) ==
    IF text.at
    THEN LET j == JsonLoads(text)
             tok == GetItem(j.obj, "access_token")
         IN  IF ~j.ok THEN RResult(Raises(j.exc), reqs, cl)
             ELSE IF ~tok.ok THEN RResult(Raises(tok.exc), reqs, cl)
             ELSE RResult(Dict(TRUE, code, Str(tok.v)), reqs,
                          [cl EXCEPT !.access_token = tok.v])
    ELSE RResult(Dict(FALSE, code, MsgAccessTokenNotInResponse), reqs, cl)

\* do_refresh_token normalising the tokens before it looks for the refresh token.
DoRefresh_UnquoteFirst(cl, op, chain) ==
    IF cl.refresh_token = None
    THEN RResult(Dict(FALSE, 0, MsgRefreshTokenEmpty), <<>>,
                 [cl EXCEPT !.access_token = IF Truthy(@) THEN Unquote(@) ELSE @])
    ELSE LET cl1 == Unquoted(cl)
             o == Urlopen(op, RefreshRequest(cl1), chain)
         IN  CASE o.kind = "response" ->
                    RefreshResponse(cl1, o.code, Decode(o.body).text, o.sent)
               [] o.kind = "HTTPError" ->
                    RResult(Dict(FALSE, o.code, MsgHttpError), o.sent, cl1)
               [] o.kind = "dict" ->
                    RResult(Raises("AttributeError"), o.sent, cl1)
               [] o.kind = "URLError" ->
                    RResult(Raises("URLError"), o.sent, cl1)

\* do_refresh_token() -> the result, the requests sent, the instance's fields after.
DoRefresh(cl, op, chain) ==
    IF cl.refresh_token = None
    THEN RResult(Dict(FALSE, 0, MsgRefreshTokenEmpty), <<>>, cl)
    ELSE LET cl1 == Unquoted(cl)
             o == Urlopen(op, RefreshRequest(cl1), chain)
         IN  CASE o.kind = "response" ->
                    IF Decode(o.body).ok
                    THEN RefreshResponse(cl1, o.code, Decode(o.body).text, o.sent)
                    ELSE RResult(Raises(Decode(o.body).exc), o.sent, cl1)
               [] o.kind = "HTTPError" ->
                    RResult(Dict(FALSE, o.code, MsgHttpError), o.sent, cl1)
               [] o.kind = "dict" ->
                    \* f.read() on the handler's record
                    RResult(Raises("AttributeError"), o.sent, cl1)
               [] o.kind = "URLError" ->
                    RResult(Raises("URLError"), o.sent, cl1)

RefreshChains(cl, op) ==
    IF cl.refresh_token = None THEN {<<>>}
    ELSE Chains(op, "POST", {Plain(t) : t \in TokenTexts})

(***************************************************************************)
(* The public calls, each one atomic step                                  *)
(***************************************************************************)

\* What callers pass.
Ids == {"42", "profiles42"}
RecordTypes == {"campaigns", "profiles"}
DataArgs == {None, "D"}

\* Bodies a resource request that is no status check may get.
ResourceTexts == {TxtNoStatus, TxtNotJson}

NoCall == [op |-> "", c |-> "", interface |-> <<>>, method |-> ""]

Call(op, c, interface, method) ==
    [op |-> op, c |-> c, interface |-> interface, method |-> method]

\* No call is under way: the next one may start.
Idle == call = NoCall

\* The state a call leaves: what was called, on which fields, what came back,
\* what went over the wire, the instance's fields and the opener after it.
Finish(cl_call, r, reqs, answers, cl, op) ==
    /\ call' = cl_call
    /\ pre' = client[cl_call.c]
    /\ popener' = opener
    /\ ret' = r
    /\ sent' = reqs
    /\ got' = answers
    /\ client' = [client EXCEPT ![cl_call.c] = cl]
    /\ opener' = op
    /\ granted' = [granted EXCEPT ![cl_call.c] =
                      CASE cl_call.op = "do_refresh_token" ->
                              IF r.kind = "dict" /\ r.success THEN cl.access_token ELSE None
                        [] cl_call.op \in {"__init__", "access_token="} -> None
                        [] OTHER -> @]

\* The sandbox argument, as the call record keeps it.
Scheme(sandbox) == IF sandbox THEN "sandbox" ELSE "prod"

\* __init__ picking the production host whatever the sandbox flag says.
Endpoint_AlwaysProd(region, sandbox) == regions(region).prod

\* The request host __init__ takes from the region's entry.
Endpoint(region, sandbox) ==
    IF sandbox THEN regions(region).sandbox ELSE regions(region).prod

\* __init__; the call record keeps the region and sandbox arguments in place of
\* a path.
Construct(c) ==
    /\ Idle
    /\ ~client[c].exists
    /\ \E region \in CallerRegions, sandbox \in BOOLEAN,
          profile_id \in ProfileIds \cup {None},
          access_token \in AccessTokens \cup {None},
          refresh_token \in RefreshTokens \cup {None} :
          IF region \in RegionCodes
          THEN Finish(Call("__init__", c, <<region, Scheme(sandbox)>>, ""),
                      ReturnsNone, <<>>, <<>>,
                      [exists |-> TRUE, client_id |-> "CID", client_secret |-> "SECRET",
                       endpoint |-> Endpoint(region, sandbox),
                       token_url |-> regions(region).token_url,
                       access_token |-> access_token,
                       refresh_token |-> refresh_token,
                       profile_id |-> profile_id],
                      opener)
          ELSE Finish(Call("__init__", c, <<region, Scheme(sandbox)>>, ""),
                      Raises("KeyError"), <<>>, <<>>, client[c], opener)

\* access_token.setter
SetAccessToken(c) ==
    /\ Idle
    /\ client[c].exists
    /\ \E v \in AccessTokens \cup {None} :
          Finish(Call("access_token=", c, <<>>, ""), ReturnsNone, <<>>, <<>>,
                 [client[c] EXCEPT !.access_token = v], opener)

\* client.profile_id = v
SetProfileId(c) ==
    /\ Idle
    /\ client[c].exists
    /\ \E v \in ProfileIds \cup {None} :
          Finish(Call("profile_id=", c, <<>>, ""), ReturnsNone, <<>>, <<>>,
                 [client[c] EXCEPT !.profile_id = v], opener)

\* client.refresh_token = v
SetRefreshToken(c) ==
    /\ Idle
    /\ client[c].exists
    /\ \E v \in RefreshTokens \cup {None} :
          Finish(Call("refresh_token=", c, <<>>, ""), ReturnsNone, <<>>, <<>>,
                 [client[c] EXCEPT !.refresh_token = v], opener)

DoRefreshToken(c) ==
    /\ Idle
    /\ client[c].exists
    /\ \E chain \in RefreshChains(client[c], opener) :
          LET res == DoRefresh(client[c], opener, chain) IN
          Finish(Call("do_refresh_token", c, <<>>, ""), res.ret, res.sent, chain,
                 res.cl, opener)

\* A wrapper that is one call of _operation.
Wrapper(c, name, interface, params, method, bodies) ==
    /\ Idle
    /\ client[c].exists
    /\ \E chain \in OperationChains(client[c], opener, interface, params, method,
                                   {Plain(t) : t \in bodies}) :
          LET res == Operation(client[c], opener, interface, params, method, chain) IN
          Finish(Call(name, c, interface, method), res.ret, res.sent, chain,
                 client[c], opener)

GetProfiles(c) ==
    /\ Idle
    /\ Wrapper(c, "get_profiles", <<"profiles">>, None, "GET", ResourceTexts)

GetProfile(c) ==
    /\ Idle
    /\ \E id \in Ids :
        Wrapper(c, "get_profile", <<"profiles", id>>, None, "GET", ResourceTexts)

UpdateProfiles(c) ==
    /\ Idle
    /\ \E data \in DataArgs :
        Wrapper(c, "update_profiles", <<"profiles">>, data, "PUT", ResourceTexts)

GetCampaign(c) ==
    /\ Idle
    /\ \E id \in Ids :
        Wrapper(c, "get_campaign", <<"campaigns", id>>, None, "GET", ResourceTexts)

CreateCampaigns(c) ==
    /\ Idle
    /\ \E data \in DataArgs :
        Wrapper(c, "create_campaigns", <<"campaigns">>, data, "POST", ResourceTexts)

ArchiveCampaign(c) ==
    /\ Idle
    /\ \E id \in Ids :
        Wrapper(c, "archive_campaign", <<"campaigns", id>>, None, "DELETE", ResourceTexts)

ListCampaigns(c) ==
    /\ Idle
    /\ \E data \in DataArgs :
        Wrapper(c, "list_campaigns", <<"campaigns">>, data, "GET", ResourceTexts)

\* archive_product_ads: pass
ArchiveProductAds(c) ==
    /\ Idle
    /\ client[c].exists
    /\ Finish(Call("archive_product_ads", c, <<>>, ""), ReturnsNone, <<>>, <<>>, client[c], opener)

\* request_snapshot / request_report: by record type, else by id, else nothing.
Request2(c, name, suffix, byId, passData) ==
    /\ Idle
    /\ \E record_type \in RecordTypes \cup {None}, id \in Ids \cup {None}, data \in DataArgs :
        IF record_type # None
        THEN Wrapper(c, name, <<record_type, suffix>>, data, "POST", ApiTexts)
        ELSE IF id # None
        THEN Wrapper(c, name, <<byId, id>>, IF passData THEN data ELSE None, "GET", ApiTexts)
        ELSE /\ client[c].exists
             /\ Finish(Call(name, c, <<>>, ""), ReturnsNone, <<>>, <<>>, client[c], opener)

RequestSnapshot(c) ==
    /\ Idle
    /\ Request2(c, "request_snapshot", "snapshot", "snapshots", TRUE)

RequestReport(c) ==
    /\ Idle
    /\ Request2(c, "request_report", "report", "reports", FALSE)

\* get_report / get_snapshot: the status check, then the download.
Get(c, name, byId) ==
    /\ Idle
    /\ client[c].exists
    /\ \E id \in Ids, rs \in DownloadReplies, bad \in BadUrlErrors :
       \E chain \in OperationChains(client[c], opener, <<byId, id>>, None, "GET",
                                   {Plain(t) : t \in ApiTexts}) :
          LET res == Operation(client[c], opener, <<byId, id>>, None, "GET", chain)
              d == AfterStatus(client[c], res.ret, rs, bad)
          IN  /\ d.fit
              /\ Finish(Call(name, c, <<byId, id>>, "GET"), d.ret, res.sent \o d.sent,
                        chain \o Answers(rs), client[c], IF d.installed THEN "noredirect" ELSE opener)

GetReport(c) ==
    /\ Idle
    /\ Get(c, "get_report", "reports")

GetSnapshot(c) ==
    /\ Idle
    /\ Get(c, "get_snapshot", "snapshots")

\* The caller takes the result: the call is over and its record is dropped.
Return ==
    /\ call # NoCall
    /\ call' = NoCall
    /\ pre' = NoClient
    /\ popener' = "default"
    /\ ret' = ReturnsNone
    /\ sent' = <<>>
    /\ got' = <<>>
    /\ UNCHANGED <<client, opener, granted>>

(***************************************************************************)
(* The specification                                                       *)
(***************************************************************************)

Init ==
    /\ client = [c \in Clients |-> NoClient]
    /\ opener = "default"
    /\ call = NoCall
    /\ pre = NoClient
    /\ popener = "default"
    /\ ret = ReturnsNone
    /\ sent = <<>>
    /\ got = <<>>
    /\ granted = [c \in Clients |-> None]

Next ==
    \/ Return
    \/ \E c \in Instances :
        \/ Construct(c)
        \/ SetAccessToken(c)
        \/ SetProfileId(c)
        \/ SetRefreshToken(c)
        \/ DoRefreshToken(c)
        \/ GetProfiles(c)
        \/ GetProfile(c)
        \/ UpdateProfiles(c)
        \/ GetCampaign(c)
        \/ CreateCampaigns(c)
        \/ ArchiveCampaign(c)
        \/ ListCampaigns(c)
        \/ ArchiveProductAds(c)
        \/ RequestSnapshot(c)
        \/ RequestReport(c)
        \/ GetReport(c)
        \/ GetSnapshot(c)

Spec == Init /\ [][Next]_vars

(***************************************************************************)
(* Two instances in one process: both constructed for the same region,     *)
(* each with tokens, with or without a profile_id, sharing the opener.     *)
(***************************************************************************)

\* The fields of an instance after AdvertisingApi(cid, secret, 'na',
\* profile_id, 'Atza|A', 'Atzr|R').
Constructed(profile_id) ==
    [exists |-> TRUE, client_id |-> "CID", client_secret |-> "SECRET",
     endpoint |-> Endpoint("na", FALSE), token_url |-> regions("na").token_url,
     access_token |-> "Atza|A", refresh_token |-> "Atzr|R", profile_id |-> profile_id]

InitTwo ==
    /\ client \in [Clients -> {Constructed(p) : p \in {None, "P1"}}]
    /\ opener = "default"
    /\ call = NoCall
    /\ pre = NoClient
    /\ popener = "default"
    /\ ret = ReturnsNone
    /\ sent = <<>>
    /\ got = <<>>
    /\ granted = [c \in Clients |-> None]

NextTwo ==
    \/ Return
    \/ \E c \in Clients :
        \/ DoRefreshToken(c)
        \/ GetCampaign(c)
        \/ CreateCampaigns(c)
        \/ GetReport(c)
        \/ GetSnapshot(c)

SpecTwo == InitTwo /\ [][NextTwo]_vars

(***************************************************************************)
(* Properties                                                              *)
(***************************************************************************)

\* The wrappers that name a resource path and hand it to _operation.
ResourceOps ==
    {"get_profiles", "get_profile", "update_profiles", "get_campaign",
     "create_campaigns", "archive_campaign", "list_campaigns",
     "request_snapshot", "request_report"}

DownloadOps == {"get_report", "get_snapshot"}

NetworkOps == ResourceOps \cup DownloadOps \cup {"do_refresh_token"}

PublicOps == NetworkOps \cup {"archive_product_ads"}

\* A call that named a path: it reached _operation.
Dispatched == call.op \in ResourceOps /\ call.interface # <<>>

Is2xx(code) == code >= 200 /\ code < 300

LastGot == got[Len(got)]

\* The urlopen of the status check of a get_report / get_snapshot that sent
\* something: its outcome and its requests (the first ones of the call).
StatusCheck == Urlopen(popener, OperationRequest(pre, call.interface, None, "GET"), got)

\* The status check came back 2xx with a JSON object.
StatusAnswered ==
    /\ call.op \in DownloadOps
    /\ got # <<>>
    /\ StatusCheck.kind = "response"
    /\ ~StatusCheck.body.gz
    /\ StatusCheck.body.text.json

StatusObj == StatusCheck.body.text.obj

\* C1: a resource operation on a client whose access_token is unset returns
\* {success: False, code: 0, response: 'access_token is empty.'} and sends
\* nothing, whatever the profile_id is.
C1_AccessTokenEmpty ==
    (Dispatched /\ pre.access_token = None)
        => (ret = Dict(FALSE, 0, MsgAccessTokenEmpty) /\ sent = <<>>)

\* C1's case: no token and no profile either, and the token message came back.
C1_Witness ==
    /\ Dispatched
    /\ call.op = "get_campaign"
    /\ pre.access_token = None
    /\ pre.profile_id = None
    /\ ret = Dict(FALSE, 0, MsgAccessTokenEmpty)

\* C2: with a token set and profile_id unset or empty, every resource
\* operation but profile listing / retrieval returns {success: False, code: 0,
\* response: 'profile_id is empty.'} and sends nothing, and profile listing
\* goes to the network.
C2_ProfileIdEmpty ==
    (Dispatched /\ pre.access_token # None /\ ~ProfileIsSet(pre))
        => IF call.op \in {"get_profiles", "get_profile"}
           THEN call.op = "get_profiles" => sent # <<>>
           ELSE ret = Dict(FALSE, 0, MsgProfileIdEmpty) /\ sent = <<>>

\* C3: when the server's answer is not 2xx, a network-facing operation returns
\* {success: False, code: <that status>, response: <message>} and does not raise.
C3_RemoteFailureIsResult ==
    (call.op \in NetworkOps /\ got # <<>> /\ LastGot # NoAnswer /\ ~Is2xx(LastGot.code))
        => (ret.kind = "dict" /\ ~ret.success /\ ret.code = LastGot.code)

\* C4: get_report / get_snapshot whose status check succeeds with a status
\* other than SUCCESS return the status-check result unchanged and send no
\* further request.
C4_NotReadyReturnsStatus ==
    (StatusAnswered /\ StatusObj.status \notin {Absent, "SUCCESS"})
        => /\ ret = Dict(TRUE, StatusCheck.code, StatusCheck.body.text)
           /\ sent = StatusCheck.sent
           /\ Len(got) = Len(sent)

\* C4's case: a PENDING report handed back after one request.
C4_Witness ==
    /\ call.op = "get_report"
    /\ ret = Dict(TRUE, 200, TxtPending)
    /\ Len(sent) = 1

\* C5: status SUCCESS with a location, the location answering 307 with a
\* Location header, the redirect target serving gzip-compressed JSON: the call
\* returns {success: True, code: <the second answer's code>, response: <the
\* parsed JSON>}.
C5_DownloadFollowsRedirect ==
    LET k == Len(StatusCheck.sent) IN
    (/\ StatusAnswered
     /\ StatusObj.status = "SUCCESS"
     /\ StatusObj.location \notin {Absent, None}
     /\ Len(got) = k + 2
     /\ got[k + 1].code = 307
     /\ got[k + 1].location # None
     /\ Is2xx(got[k + 2].code)
     /\ got[k + 2].body.gz
     /\ got[k + 2].body.text.json)
        => ret = Dict(TRUE, got[k + 2].code, Parsed(got[k + 2].body.text.obj))

\* C5's case: a snapshot downloaded over three requests.
C5_Witness ==
    /\ call.op = "get_snapshot"
    /\ Len(sent) = 3
    /\ got[2].code = 307
    /\ ret = Dict(TRUE, 200, Parsed(TxtRows.obj))

\* C6: status SUCCESS without a usable location (on a client with a
\* profile_id): the call returns a failure
\* with the status check's code, 'Location is empty.' for a null location and
\* 'Location not found.' for a missing one, and does not raise.
C6_NoLocationIsResult ==
    (/\ StatusAnswered
     /\ pre.profile_id # None
     /\ StatusObj.status = "SUCCESS"
     /\ StatusObj.location \in {Absent, None})
        => ret = Dict(FALSE, StatusCheck.code,
                      IF StatusObj.location = None THEN MsgLocationEmpty
                                                   ELSE MsgLocationNotFound)

\* The token endpoint answered 2xx.
RefreshAnswered ==
    /\ call.op = "do_refresh_token"
    /\ pre.refresh_token # None
    /\ got # <<>>
    /\ Is2xx(LastGot.code)
    /\ ~LastGot.body.gz

\* C7: refresh() with a refresh_token, the token endpoint answering JSON with
\* access_token = T: T is stored and {success: True, code: <http code>,
\* response: T} is returned; resource operations after it (until refresh is
\* called again or access_token is assigned) send 'Authorization: Bearer T'.
C7_RefreshStoresToken ==
    /\ (RefreshAnswered /\ LastGot.body.text.json
            /\ LastGot.body.text.obj.access_token # Absent)
          => /\ client[call.c].access_token = LastGot.body.text.obj.access_token
             /\ ret = Dict(TRUE, LastGot.code, Str(LastGot.body.text.obj.access_token))
    /\ (Dispatched /\ sent # <<>> /\ granted[call.c] # None)
          => sent[1].auth = "Bearer " \o granted[call.c]

\* C7's case: a refresh stored the percent-encoded token and a later resource
\* operation has sent it.
C7_Witness ==
    /\ Dispatched
    /\ sent # <<>>
    /\ granted[call.c] = "Atza%7CA"
    /\ sent[1].auth = "Bearer Atza%7CA"

\* C8: refresh() with no refresh_token returns {success: False, code: 0,
\* response: <message>}, sends nothing and leaves both tokens as they were.
C8_RefreshWithoutToken ==
    (call.op = "do_refresh_token" /\ pre.refresh_token = None)
        => /\ ret = Dict(FALSE, 0, MsgRefreshTokenEmpty)
           /\ sent = <<>>
           /\ client[call.c].access_token = pre.access_token
           /\ client[call.c].refresh_token = pre.refresh_token

\* C8's case: no refresh token, a percent-encoded access token left alone.
C8_Witness ==
    /\ call.op = "do_refresh_token"
    /\ pre.refresh_token = None
    /\ pre.access_token = "Atza%7CA"
    /\ client[call.c].access_token = "Atza%7CA"
    /\ ret.code = 0

\* C9: refresh() given a 2xx answer whose body has no access_token field
\* returns {success: False, code: <http code>, response: 'access_token not in
\* response.'}, does not raise, and does not put a new token in place of the
\* stored one (which is the old one, normalised).
C9_NoTokenInResponse ==
    (RefreshAnswered /\ LastGot.body.text.obj.access_token = Absent)
        => /\ ret = Dict(FALSE, LastGot.code, MsgAccessTokenNotInResponse)
           /\ client[call.c].access_token = Unquoted(pre).access_token

\* C10: every public operation returns a {success, code, response} result.
C10_UniformResult ==
    call.op \in PublicOps => ret.kind = "dict"

\* The positions in `sent` of the requests the call itself built, one per
\* urlopen it made, in order: the first urlopen ran under the opener installed
\* at the start, any later one is the download's, under the no-redirect
\* opener; the requests in between are redirects urllib followed within one
\* urlopen.
RECURSIVE Starts(_, _)
Starts(op, i) ==
    IF i > Len(sent) THEN <<>>
    ELSE <<i>> \o Starts("noredirect",
                         i + Len(Urlopen(op, sent[i], SubSeq(got, i, Len(got))).sent))

Urlopens == Starts(popener, 1)

\* C11 as stated: a call puts at most two requests on the wire, and none twice.
C11_AtMostTwoRequests ==
    call.op \in PublicOps
        => /\ Len(sent) <= 2
           /\ \A i, j \in 1..Len(sent) : sent[i] = sent[j] => i = j

\* C11, amended: a call makes at most three urlopen calls, each once and in
\* this order: the dispatch or status check; then, in get_report /
\* get_snapshot only and only on a SUCCESS status, one GET of the artifact
\* location; then, only after a 307 with a Location, one GET of that Location.
\* Every request on the wire got one answer and was not sent again.
C11_AtMostThreeUrlopens ==
    call.op \in PublicOps
        => /\ Len(Urlopens) <= 3
           /\ (call.op \notin DownloadOps => Len(Urlopens) <= 1)
           /\ Len(Urlopens) >= 2
                 => /\ StatusAnswered
                    /\ StatusObj.status = "SUCCESS"
                    /\ StatusObj.location \notin {Absent, None}
                    /\ sent[Urlopens[2]] = DownloadRequest(pre, StatusObj.location)
           /\ Len(Urlopens) = 3
                 => /\ got[Urlopens[3] - 1].code = 307
                    /\ got[Urlopens[3] - 1].location # None
                    /\ sent[Urlopens[3]] = FollowRequest(got[Urlopens[3] - 1].location)
           /\ Len(got) = Len(sent)

\* C11's case: a report fetched with three urlopen calls.
C11_Witness ==
    /\ call.op = "get_report"
    /\ Len(Urlopens) = 3
    /\ ret.kind = "dict"
    /\ ret.success

\* C12: when a request of a dispatch or a refresh gets no HTTP answer at all
\* (connection, name lookup or transport failure), the call returns {success:
\* False, code: 0, response: <message>} and does not raise.
C12_TransportFailureIsResult ==
    (/\ Dispatched \/ call.op = "do_refresh_token"
     /\ got # <<>>
     /\ LastGot = NoAnswer)
        => (ret.kind = "dict" /\ ~ret.success /\ ret.code = 0)

\* C13: with an access_token set and profile_id None, get_report /
\* get_snapshot (of an id like any other) raise ValueError('Invalid profile
\* Id.'), where a dispatch of a path that is not exempt returns {success:
\* False, code: 0, response: 'profile_id is empty.'}.
C13_DownloadRaisesInvalidProfile ==
    /\ (call.op \in DownloadOps /\ pre.access_token # None /\ pre.profile_id = None
            /\ ~HasProfiles(call.interface))
          => ret = Raises(InvalidProfileId)
    /\ (Dispatched /\ pre.access_token # None /\ pre.profile_id = None
            /\ ~HasProfiles(call.interface))
          => ret = Dict(FALSE, 0, MsgProfileIdEmpty)

\* C14: __init__ with a region code of the table yields a client whose request
\* host is that region's sandbox host when sandbox is set and its production
\* host when not, and whose token host is that region's; with any other code it
\* raises and no client exists.  No step of any operation changes the two
\* hosts of a client that exists.
C14_RegionHostsFixed ==
    [][/\ call'.op = "__init__" /\ call.op # "__init__"
            => LET c == call'.c
                   region == call'.interface[1]
                   sandbox == call'.interface[2] = "sandbox"
               IN  IF region \in RegionCodes
                   THEN /\ ret'.kind # "raise"
                        /\ client'[c].exists
                        /\ client'[c].endpoint = IF sandbox THEN regions(region).sandbox
                                                           ELSE regions(region).prod
                        /\ client'[c].token_url = regions(region).token_url
                   ELSE /\ ret'.kind = "raise"
                        /\ ~client'[c].exists
       /\ \A c \in Clients :
            client[c].exists
                => /\ client'[c].exists
                   /\ client'[c].endpoint = client[c].endpoint
                   /\ client'[c].token_url = client[c].token_url]_vars

\* C14's case: a sandbox client of the eu region that has since been given a
\* new token by a refresh, after a download installed the no-redirect opener.
C14_Witness ==
    /\ call.op = "do_refresh_token"
    /\ ret.kind = "dict"
    /\ ret.success
    /\ opener = "noredirect"
    /\ client[call.c].endpoint = regions("eu").sandbox
    /\ client[call.c].token_url = regions("eu").token_url

\* C15: in the download step of get_report / get_snapshot (on a client with a
\* profile_id) the first GET goes to the artifact location with the headers of
\* the dispatch; a second GET is on the wire only after a 307 answer with a
\* Location header, goes to that Location, and carries no Authorization and no
\* scope header (nor any other header of the first).
C15_DownloadRequests ==
    (call.op \in DownloadOps /\ ProfileIsSet(pre) /\ Len(Urlopens) >= 2)
        => LET d == Urlopens[2] IN
           /\ sent[d] = [sent[1] EXCEPT !.url = Url(StatusObj.location)]
           /\ Len(sent) > d
                => /\ got[d].code = 307
                   /\ got[d].location # None
                   /\ sent[d + 1] = FollowRequest(got[d].location)

\* The call got as far as the download step's install_opener: its status
\* check came back SUCCESS with a location and the instance has a profile_id.
DownloadRan ==
    /\ StatusAnswered
    /\ StatusObj.status = "SUCCESS"
    /\ StatusObj.location # Absent
    /\ pre.profile_id # None

\* C16: a download of any instance leaves the no-redirect opener installed for
\* the process; once installed it stays installed whatever any instance does;
\* and a call of any instance that starts under it and whose first request is
\* answered 307 sends nothing further (the 307 is not followed) and gets the
\* handler's record in place of a response, which the caller's code cannot
\* read (f.code / f.read() raise AttributeError).
C16_NoRedirectStays ==
    [][/\ DownloadRan' => opener' = "noredirect"
       /\ opener = "noredirect" => opener' = "noredirect"
       /\ (call'.op \in NetworkOps /\ popener' = "noredirect" /\ got' # <<>>
              /\ got'[1].code = 307)
            => /\ Len(sent') = 1
               /\ Urlopen(popener', sent'[1], got').kind = "dict"
               /\ ret' = Raises("AttributeError")]_vars

\* C16's case: an instance without a profile_id, which cannot have run a
\* download itself, refreshes after the other instance's download and its 307
\* is handed back as the record.
C16_Witness ==
    /\ call.op = "do_refresh_token"
    /\ call.c = "c2"
    /\ client["c2"].profile_id = None
    /\ client["c1"].profile_id # None
    /\ popener = "noredirect"
    /\ got # <<>>
    /\ got[1].code = 307
    /\ got[1].location # None
    /\ Len(sent) = 1
    /\ ret = Raises("AttributeError")

====
